---- MODULE Spec2Model ----
(***************************************************************************)
(* Duplicate photo/video remover.                                          *)
(*                                                                         *)
(* Two scripts are modelled over one small file system:                    *)
(*   compare_and_delete_duplicates.py   main()             reference mode  *)
(*   remove_duplicate_photos_by_Gemini.py run_auto_backup() single tree    *)
(*                                                                         *)
(* A path string is a record [dir |-> <<components>>, name |-> file name], *)
(* the value os.path.join(root, file) builds.  The current directory is    *)
(* the common parent of the top directories, so abspath only normalises.   *)
(* The file system maps every real (symlink-free) path to the content      *)
(* stored there, or to NoFile.  Directories always exist; an empty         *)
(* directory yields nothing when walked.                                   *)
(***************************************************************************)
EXTENDS Integers, Sequences, FiniteSets, TLC

\* ---------------------------------------------------------------- bounds
MaxFiles == 3
NumContents == 2

\* ------------------------------------------------------------ file system
NoFile == 0
None == "None"
Contents == 1..NumContents

FileNames == {"a.jpg", "abc.JPG", "n.txt"}
NameOrder == <<"a.jpg", "abc.JPG", "n.txt">>
DirOrder == <<"Google Photos", "sub", "bk">>

\* the symbolic link L -> R, a sibling of the top directories
SymLinks == {"L"}
LinkTarget(c) == <<"R">>

RefRealDirs == {<<"R">>, <<"R", "sub">>, <<"T">>}
ScanRealDirs == {<<"D">>, <<"D", "Google Photos">>, <<"D", "sub">>}
NestedBackupDirs == {<<"D", "bk">>, <<"D", "bk", "Google Photos">>, <<"D", "bk", "sub">>}
OuterBackupDirs == {<<"B">>, <<"B", "Google Photos">>, <<"B", "sub">>}
RealDirs == RefRealDirs \cup ScanRealDirs \cup NestedBackupDirs \cup OuterBackupDirs

Join(root, file) == [dir |-> root, name |-> file]
RealPaths == {Join(d, n) : d \in RealDirs, n \in FileNames}

\* os.path.normpath, as far as the model's strings need it: drop "."
Normpath(d) == SelectSeq(d, LAMBDA c : c # ".")

\* os.path.abspath: lexical only, symbolic links are kept
Abspath(p) == [dir |-> Normpath(p.dir), name |-> p.name]
AbspathDir(d) == Normpath(d)

\* what the operating system does when the path is opened: links resolved
ResolveDir(d) ==
  LET n == Normpath(d)
  IN  IF n # <<>> /\ Head(n) \in SymLinks THEN LinkTarget(Head(n)) \o Tail(n) ELSE n
Realpath(p) == [dir |-> ResolveDir(p.dir), name |-> p.name]

\* Path(file).suffix and str.lower on the model's names
Suffix(n) == CASE n = "a.jpg" -> ".jpg" [] n = "abc.JPG" -> ".JPG" [] n = "n.txt" -> ".txt"
Lower(s) == IF s = ".JPG" THEN ".jpg" ELSE s

RefEXTENSIONS == {".jpg", ".jpeg", ".png", ".bmp", ".gif", ".tiff", ".webp", ".heic",
                  ".mp4", ".mov", ".avi", ".mkv", ".wmv", ".flv", ".ts"}
EXTENSIONS == {".jpg", ".jpeg", ".png", ".bmp", ".gif", ".tiff",
               ".mp4", ".mov", ".avi", ".mkv", ".wmv", ".flv"}

\* hashlib.md5(content).hexdigest(): one digest per content, never empty
Md5(c) == <<"md5", c>>

VARIABLES
  script,            \* which script runs: "compare" or "backup"
  REFERENCE_DIR, TARGET_DIR,      \* configuration of compare_and_delete_duplicates
  TARGET_DRIVE, BACKUP_DIR,       \* configuration of remove_duplicate_photos
  disk0,             \* the file system when the first run started
  disk,              \* the file system now
  pc,                \* position of the running script
  walk,              \* paths the current directory walk has still to yield
  reference_hashes,  \* digest -> reference path (compare)
  deleted_files,     \* compare: paths removed so far
  files_dict,        \* backup: <<[hash, info_list]>> in insertion order
  gi, ii,            \* backup: group and item the processing loop is at
  move_queue,        \* backup: records moved so far
  log,               \* rows of the CSV report
  console,           \* error lines printed so far
  unhashed,          \* paths whose get_file_hash returned None in this run
  run,               \* 1 or 2: which of two successive runs
  first_run          \* outcome of the first run, once a second one started

vars == <<script, REFERENCE_DIR, TARGET_DIR, TARGET_DRIVE, BACKUP_DIR, disk0, disk, pc,
          walk, reference_hashes, deleted_files, files_dict, gi, ii, move_queue, log,
          console, unhashed, run, first_run>>

config == <<script, REFERENCE_DIR, TARGET_DIR, TARGET_DRIVE, BACKUP_DIR, disk0>>

\* -------------------------------------------------------------- os.walk
IsPrefix(a, b) == Len(a) <= Len(b) /\ SubSeq(b, 1, Len(a)) = a

\* files of one real directory, in listing order, as os.walk names them
FilesIn(fs, d) ==
  SelectSeq(NameOrder, LAMBDA n : Join(d, n) \in RealPaths /\ fs[Join(d, n)] # NoFile)

\* the sub-directories os.walk descends into (real ones; links are not followed)
SubdirNames(d) ==
  SelectSeq(DirOrder, LAMBDA c : (ResolveDir(d) \o <<c>>) \in RealDirs)

RECURSIVE WalkRoots(_)
\* os.walk(top): the root strings in top-down order
WalkRoots(top) ==
  LET subs == SubdirNames(top)
      Sub[i \in 0..Len(subs)] ==
        IF i = 0 THEN <<>> ELSE Sub[i - 1] \o WalkRoots(top \o <<subs[i]>>)
  IN  <<top>> \o Sub[Len(subs)]

\* the paths os.path.join(root, file) for the files of one root
RootFiles(fs, root, exts) ==
  LET names == SelectSeq(FilesIn(fs, ResolveDir(root)), LAMBDA n : Lower(Suffix(n)) \in exts)
  IN  [i \in 1..Len(names) |-> Join(root, names[i])]

Flatten(seqs) ==
  LET F[i \in 0..Len(seqs)] == IF i = 0 THEN <<>> ELSE F[i - 1] \o seqs[i]
  IN  F[Len(seqs)]

\* compare: find_media_files(directory)
find_media_files(fs, directory) ==
  LET roots == WalkRoots(directory)
  IN  Flatten([i \in 1..Len(roots) |-> RootFiles(fs, roots[i], RefEXTENSIONS)])

Range(s) == {s[i] : i \in 1..Len(s)}

\* faulty variant: the backup root itself is skipped, its sub-directories are not
StartswithExact(a, b) == a = b

\* str.startswith on two directory strings.  No directory name of the model
\* is a proper prefix of another, so the test is component-wise.
Startswith(a, b) == IsPrefix(b, a)

\* backup: the roots of os.walk(TARGET_DRIVE) that are not skipped as backup
ScanRoots(drive, backup) ==
  SelectSeq(WalkRoots(drive), LAMBDA root : ~Startswith(AbspathDir(root), AbspathDir(backup)))

\* backup: the paths the scanning loop hashes, in order
ScanList(fs, drive, backup) ==
  LET roots == ScanRoots(drive, backup)
  IN  Flatten([i \in 1..Len(roots) |-> RootFiles(fs, roots[i], EXTENSIONS)])

\* get_file_hash(path): the digest, or None when open/read raises
get_file_hash(fs, path, readable) ==
  IF readable /\ fs[Realpath(path)] # NoFile THEN Md5(fs[Realpath(path)]) ELSE None

\* ------------------------------------------------------------------ Init
CompareCandidates ==
  {Join(d, n) : d \in RefRealDirs, n \in {"a.jpg", "abc.JPG"}} \cup {Join(<<"R">>, "n.txt")}

BackupCandidates(backup) ==
  {Join(d, n) : d \in ScanRealDirs, n \in {"a.jpg", "abc.JPG"}}
    \cup {Join(<<"D">>, "n.txt"), Join(backup, "a.jpg")}

\* every file system with at most MaxFiles files on the candidate paths
Disks(candidates) ==
  UNION {UNION {{[p \in RealPaths |-> IF p \in S THEN c[p] ELSE NoFile] : c \in [S -> Contents]}
                  : S \in {T \in SUBSET candidates : Cardinality(T) = k}}
           : k \in 0..MaxFiles}

\* <<REFERENCE_DIR, TARGET_DIR>>: apart, equal, target nested, reference
\* nested, target a link to the reference, target the reference spelt "./R"
CompareLayouts ==
  {<<<<"R">>, <<"T">>>>, <<<<"R">>, <<"R">>>>, <<<<"R">>, <<"R", "sub">>>>,
   <<<<"R", "sub">>, <<"R">>>>, <<<<"R">>, <<"L">>>>, <<<<"R">>, <<".", "R">>>>}

\* <<TARGET_DRIVE, BACKUP_DIR>>: backup outside the tree, backup inside it
BackupLayouts ==
  {<<<<"D">>, <<"B">>>>, <<<<".", "D">>, <<"D", "bk">>>>}

NoDir == <<>>
NoFirstRun == [done |-> FALSE, clean |-> FALSE, moved |-> 0]

InitCompare ==
  /\ script = "compare"
  /\ \E l \in CompareLayouts : REFERENCE_DIR = l[1] /\ TARGET_DIR = l[2]
  /\ TARGET_DRIVE = NoDir /\ BACKUP_DIR = NoDir
  /\ disk0 \in Disks(CompareCandidates)
  /\ pc = "ref_scan"
  /\ walk = find_media_files(disk0, REFERENCE_DIR)

InitBackup ==
  /\ script = "backup"
  /\ REFERENCE_DIR = NoDir /\ TARGET_DIR = NoDir
  /\ \E l \in BackupLayouts : TARGET_DRIVE = l[1] /\ BACKUP_DIR = l[2]
  /\ disk0 \in Disks(BackupCandidates(BACKUP_DIR))
  /\ pc = "scan"
  /\ walk = ScanList(disk0, TARGET_DRIVE, BACKUP_DIR)

InitRest ==
  /\ disk = disk0
  /\ reference_hashes = <<>>
  /\ deleted_files = <<>>
  /\ files_dict = <<>>
  /\ gi = 0 /\ ii = 0
  /\ move_queue = <<>>
  /\ log = <<>>
  /\ console = {}
  /\ unhashed = {}
  /\ run = 1
  /\ first_run = NoFirstRun

Init == (InitCompare \/ InitBackup) /\ InitRest

\* ------------------------------------------- compare_and_delete_duplicates
HashError(path) == [msg |-> "Hash calculation error", path |-> path, e |-> "open"]
\* the printed line names the path and the exception e
DeleteFailed(path, e) == [msg |-> "[Delete Failed]", path |-> path, e |-> e]
MoveFailed(path) == [msg |-> "[Error] Failed to move", path |-> path, e |-> "move"]

\* reference_hashes[f_hash] = path
DictSet(d, k, v) == [x \in DOMAIN d \cup {k} |-> IF x = k THEN v ELSE d[x]]

\* step 1, one iteration of: for path in find_media_files(REFERENCE_DIR)
RefIndexFile ==
  /\ script = "compare" /\ pc = "ref_scan" /\ walk # <<>>
  /\ LET path == Head(walk)
     IN  \E readable \in BOOLEAN :
           LET f_hash == get_file_hash(disk, path, readable)
           IN  IF f_hash # None
               THEN /\ reference_hashes' = DictSet(reference_hashes, f_hash, path)
                    /\ UNCHANGED <<console, unhashed>>
               ELSE /\ console' = console \cup {HashError(path)}
                    /\ unhashed' = unhashed \cup {path}
                    /\ UNCHANGED reference_hashes
  /\ walk' = Tail(walk)
  /\ UNCHANGED <<config, disk, pc, deleted_files, files_dict, gi, ii, move_queue, log,
                 run, first_run>>

\* the reference walk is exhausted: the log is opened and the target walk starts
RefScanDone ==
  /\ script = "compare" /\ pc = "ref_scan" /\ walk = <<>>
  /\ pc' = "target_scan"
  /\ walk' = find_media_files(disk, TARGET_DIR)
  /\ log' = <<>>
  /\ UNCHANGED <<config, disk, reference_hashes, deleted_files, files_dict, gi, ii,
                 move_queue, console, unhashed, run, first_run>>

DeletedRow(path, original_path) ==
  [Status |-> "Deleted", Deleted_File_Path |-> path, Kept_Original_Path |-> original_path]

\* faulty variant: the guard compares file names only
SameFileByName(path, original_path) == path.name = original_path.name

\* the guard of line 92
SameFile(path, original_path) == Abspath(path) = Abspath(original_path)

\* step 2, one iteration of: for path in find_media_files(TARGET_DIR)
TargetFile ==
  /\ script = "compare" /\ pc = "target_scan" /\ walk # <<>>
  /\ LET path == Head(walk)
     IN  \E readable \in BOOLEAN :
           LET f_hash == get_file_hash(disk, path, readable)
           IN  IF f_hash = None
               THEN /\ console' = console \cup {HashError(path)}
                    /\ unhashed' = unhashed \cup {path}
                    /\ UNCHANGED <<disk, deleted_files, log>>
               ELSE IF f_hash \notin DOMAIN reference_hashes
                       \/ SameFile(path, reference_hashes[f_hash])
               THEN UNCHANGED <<disk, deleted_files, log, console, unhashed>>
               ELSE \E outcome \in {"getsize_raises", "remove_raises", "writerow_raises", "ok"} :
                      /\ unhashed' = unhashed
                      /\ IF outcome \in {"getsize_raises", "remove_raises"}
                         THEN /\ console' = console \cup {DeleteFailed(path, outcome)}
                              /\ UNCHANGED <<disk, deleted_files, log>>
                         ELSE /\ disk' = [disk EXCEPT ![Realpath(path)] = NoFile]
                              /\ deleted_files' = Append(deleted_files, path)
                              /\ IF outcome = "ok"
                                 THEN /\ log' = Append(log, DeletedRow(path, reference_hashes[f_hash]))
                                      /\ console' = console
                                 ELSE /\ log' = log
                                      /\ console' = console \cup {DeleteFailed(path, outcome)}
  /\ walk' = Tail(walk)
  /\ UNCHANGED <<config, pc, reference_hashes, files_dict, gi, ii, move_queue, run, first_run>>

\* the target walk is exhausted: step 3, the result report
TargetScanDone ==
  /\ script = "compare" /\ pc = "target_scan" /\ walk = <<>>
  /\ pc' = "done"
  /\ UNCHANGED <<config, disk, walk, reference_hashes, deleted_files, files_dict, gi, ii,
                 move_queue, log, console, unhashed, run, first_run>>

\* --------------------------------------- remove_duplicate_photos_by_Gemini
\* the info dict of line 80 (size and dates only enrich the report)
Info(file, path) == [title |-> file, path |-> path, status |-> "Keep"]

\* files_dict.setdefault(f_hash, []).append(info); a dict keeps insertion order
SetdefaultAppend(d, f_hash, info) ==
  IF \E i \in 1..Len(d) : d[i].hash = f_hash
  THEN [i \in 1..Len(d) |->
          IF d[i].hash = f_hash
          THEN [d[i] EXCEPT !.info_list = Append(@, info)]
          ELSE d[i]]
  ELSE Append(d, [hash |-> f_hash, info_list |-> <<info>>])

\* 'Google Photos' in s or 'Google 포토' in s, for the names of the model
HasMarker(s) == s = "Google Photos"
MarkerInPath(p) == HasMarker(p.name) \/ \E i \in 1..Len(p.dir) : HasMarker(p.dir[i])

\* the sort key of line 106: (is_not_google, name_length)
SortKey(x) == <<~MarkerInPath(x.path), Len(x.title)>>

\* tuple comparison k1 <= k2, False < True
KeyLeq(k1, k2) ==
  \/ (~k1[1] /\ k2[1])
  \/ (k1[1] = k2[1] /\ k1[2] <= k2[2])

Reverse(s) == [i \in 1..Len(s) |-> s[Len(s) + 1 - i]]

RECURSIVE InsertAsc(_, _)
\* x goes behind every element whose key is <= its own
InsertAsc(x, s) ==
  IF s = <<>> THEN <<x>>
  ELSE IF KeyLeq(SortKey(Head(s)), SortKey(x))
       THEN <<Head(s)>> \o InsertAsc(x, Tail(s))
       ELSE <<x>> \o s

\* a stable ascending sort
StableSortAsc(s) ==
  LET S[i \in 0..Len(s)] == IF i = 0 THEN <<>> ELSE InsertAsc(s[i], S[i - 1])
  IN  S[Len(s)]

\* faulty variant: sort ascending, then reverse (equal keys end up in reverse order)
SortThenReverse(info_list) == Reverse(StableSortAsc(info_list))

\* list.sort(key=..., reverse=True): reverse, sort stably, reverse
SortReverse(info_list) == Reverse(StableSortAsc(Reverse(info_list)))

\* os.path.relpath(path, TARGET_DRIVE) for a path below TARGET_DRIVE
Relpath(path, start) ==
  LET d == Normpath(path.dir)
      s == Normpath(start)
  IN  [dir |-> SubSeq(d, Len(s) + 1, Len(d)), name |-> path.name]

\* faulty variant: the relative directory is dropped
DestPathFlat(path, drive, backup) == [dir |-> backup, name |-> path.name]

\* os.path.join(BACKUP_DIR, rel_path)
DestPath(path, drive, backup) ==
  LET rel_path == Relpath(path, drive)
  IN  [dir |-> backup \o rel_path.dir, name |-> rel_path.name]

Row(item) == [status |-> item.status, title |-> item.title, path |-> item.path]

\* faulty variant: only the moved records are written
WriterowMovedOnly(rows, item) == IF item.status = "Keep" THEN rows ELSE Append(rows, Row(item))

\* writer.writerow({k: item[k] for k in keys})
Writerow(rows, item) == Append(rows, Row(item))

\* faulty variant: a file whose digest was already seen is moved while scanning
ScanFileEager ==
  /\ script = "backup" /\ pc = "scan" /\ walk # <<>>
  /\ walk' = Tail(walk)
  /\ LET path == Head(walk)
         f_hash == get_file_hash(disk, path, TRUE)
         info == Info(path.name, path)
     IN  IF \E i \in 1..Len(files_dict) : files_dict[i].hash = f_hash
         THEN /\ disk' = [disk EXCEPT ![Realpath(DestPath(path, TARGET_DRIVE, BACKUP_DIR))] =
                                        disk[Realpath(path)],
                                      ![Realpath(path)] = NoFile]
              /\ move_queue' = Append(move_queue, [info EXCEPT !.status = "Move to Backup"])
              /\ UNCHANGED files_dict
         ELSE /\ files_dict' = SetdefaultAppend(files_dict, f_hash, info)
              /\ UNCHANGED <<disk, move_queue>>
  /\ UNCHANGED <<config, pc, reference_hashes, deleted_files, gi, ii, log, console,
                 unhashed, run, first_run>>

\* 1. one iteration of the scanning loop
ScanFile ==
  /\ script = "backup" /\ pc = "scan" /\ walk # <<>>
  /\ walk' = Tail(walk)
  /\ LET path == Head(walk)
     IN  \E readable \in BOOLEAN :
           LET f_hash == get_file_hash(disk, path, readable)
           IN  IF f_hash = None
               THEN /\ unhashed' = unhashed \cup {path}
                    /\ UNCHANGED <<pc, files_dict>>
               ELSE \E stat_ok \in BOOLEAN :
                      /\ unhashed' = unhashed
                      /\ IF stat_ok
                         THEN /\ files_dict' = SetdefaultAppend(files_dict, f_hash, Info(path.name, path))
                              /\ pc' = pc
                         ELSE \* getmtime, getsize or fromtimestamp raises: nothing catches it
                              /\ pc' = "aborted"
                              /\ files_dict' = files_dict
  /\ UNCHANGED <<config, disk, reference_hashes, deleted_files, gi, ii, move_queue, log,
                 console, run, first_run>>

\* the walk is exhausted: the report is opened and the group loop starts
ScanDone ==
  /\ script = "backup" /\ pc = "scan" /\ walk = <<>>
  /\ pc' = "process"
  /\ gi' = 1 /\ ii' = 0
  /\ log' = <<>>
  /\ UNCHANGED <<config, disk, walk, reference_hashes, deleted_files, files_dict,
                 move_queue, console, unhashed, run, first_run>>

\* 2. the head of one iteration of: for f_hash, info_list in files_dict.items()
BeginGroup ==
  /\ script = "backup" /\ pc = "process" /\ ii = 0 /\ gi <= Len(files_dict)
  /\ IF Len(files_dict[gi].info_list) > 1
     THEN /\ files_dict' = [files_dict EXCEPT ![gi].info_list = SortReverse(@)]
          /\ ii' = 1
          /\ gi' = gi
     ELSE /\ gi' = gi + 1
          /\ UNCHANGED <<files_dict, ii>>
  /\ UNCHANGED <<config, disk, pc, walk, reference_hashes, deleted_files, move_queue, log,
                 console, unhashed, run, first_run>>

\* one iteration of: for i, item in enumerate(info_list)
ProcessItem ==
  /\ script = "backup" /\ pc = "process" /\ ii >= 1
  /\ LET info_list == files_dict[gi].info_list
         i == ii - 1
         item == IF i > 0 THEN [info_list[ii] EXCEPT !.status = "Move to Backup"]
                 ELSE info_list[ii]
         dest_path == DestPath(item.path, TARGET_DRIVE, BACKUP_DIR)
         src == Realpath(item.path)
         dst == Realpath(dest_path)
     IN  /\ files_dict' = [files_dict EXCEPT ![gi].info_list[ii] = item]
         /\ IF i > 0
            THEN \E outcome \in {"ok", "raises", "raises_after_copy"} :
                   CASE outcome = "ok" ->
                          /\ disk' = [disk EXCEPT ![dst] = disk[src], ![src] = NoFile]
                          /\ move_queue' = Append(move_queue, item)
                          /\ console' = console
                     [] outcome = "raises" ->
                          /\ console' = console \cup {MoveFailed(item.path)}
                          /\ UNCHANGED <<disk, move_queue>>
                     [] outcome = "raises_after_copy" ->
                          \* shutil.move copied across volumes, the unlink failed
                          /\ disk' = [disk EXCEPT ![dst] = disk[src]]
                          /\ console' = console \cup {MoveFailed(item.path)}
                          /\ UNCHANGED move_queue
            ELSE UNCHANGED <<disk, move_queue, console>>
         /\ \E written \in BOOLEAN :
              IF written
              THEN /\ log' = Writerow(log, item)
                   /\ pc' = pc
                   /\ IF ii < Len(info_list)
                      THEN ii' = ii + 1 /\ gi' = gi
                      ELSE ii' = 0 /\ gi' = gi + 1
              ELSE \* writer.writerow raises: nothing catches it
                   /\ pc' = "aborted"
                   /\ UNCHANGED <<log, gi, ii>>
  /\ UNCHANGED <<config, walk, reference_hashes, deleted_files, unhashed, run, first_run>>

\* every group is done: 3. the final summary
ProcessDone ==
  /\ script = "backup" /\ pc = "process" /\ ii = 0 /\ gi > Len(files_dict)
  /\ pc' = "done"
  /\ UNCHANGED <<config, disk, walk, reference_hashes, deleted_files, files_dict, gi, ii,
                 move_queue, log, console, unhashed, run, first_run>>

\* the user starts run_auto_backup() again on the tree the first run left
SecondRun ==
  /\ script = "backup" /\ run = 1 /\ pc \in {"done", "aborted"}
  /\ run' = 2
  /\ first_run' = [done |-> (pc = "done"),
                   clean |-> (pc = "done" /\ console = {} /\ unhashed = {}),
                   moved |-> Len(move_queue)]
  /\ pc' = "scan"
  /\ walk' = ScanList(disk, TARGET_DRIVE, BACKUP_DIR)
  /\ files_dict' = <<>>
  /\ gi' = 0 /\ ii' = 0
  /\ move_queue' = <<>>
  /\ console' = {}
  /\ unhashed' = {}
  /\ UNCHANGED <<config, disk, reference_hashes, deleted_files, log>>

\* -------------------------------------------------------- specifications
Next ==
  \/ RefIndexFile \/ RefScanDone \/ TargetFile \/ TargetScanDone
  \/ ScanFile \/ ScanDone \/ BeginGroup \/ ProcessItem \/ ProcessDone

Spec == Init /\ [][Next]_vars

\* two successive runs of the single-tree script
InitTwice == InitBackup /\ InitRest
NextTwice == ScanFile \/ ScanDone \/ BeginGroup \/ ProcessItem \/ ProcessDone \/ SecondRun
SpecTwice == InitTwice /\ [][NextTwice]_vars

\* ------------------------------------------------------------ properties
Compare == script = "compare"
Backup == script = "backup"

Exists(p) == disk[Realpath(p)] # NoFile
\* the digest of the file a path named when the run started
DigestAtStart(p) == Md5(disk0[Realpath(p)])

\* the paths the target walk of the compare script yields
TargetPaths == Range(find_media_files(disk0, TARGET_DIR))

Groups == Range(files_dict)
Members(g) == Range(g.info_list)
Content(g) == g.hash[2]

\* C1: reference mode never deletes a target path whose canonical form
\* (absolute, links resolved) equals that of the reference path indexed for
\* its digest.
C1_ReferenceFileNeverDeleted ==
  Compare =>
    \A i \in 1..Len(deleted_files) :
      LET path == deleted_files[i]
      IN  DigestAtStart(path) \in DOMAIN reference_hashes
            => Realpath(path) # Realpath(reference_hashes[DigestAtStart(path)])

\* a target path whose digest is indexed under a canonically different path
TrueDuplicate(path) ==
  /\ DigestAtStart(path) \in DOMAIN reference_hashes
  /\ Realpath(path) # Realpath(reference_hashes[DigestAtStart(path)])

DeletedRowsFor(path) ==
  {i \in 1..Len(log) : log[i].Status = "Deleted" /\ log[i].Deleted_File_Path = path}

DeletedAndLogged(path) ==
  /\ ~Exists(path)
  /\ Cardinality(DeletedRowsFor(path)) = 1
  /\ \A i \in DeletedRowsFor(path) :
       log[i].Kept_Original_Path = reference_hashes[DigestAtStart(path)]

\* no error line was printed for the path
NoFailure(path) == \A m \in console : m.path # path

C6_IndexBuiltBeforeAction ==
  /\ pc \in {"ref_scan", "scan"} =>
       disk = disk0 /\ deleted_files = <<>> /\ move_queue = <<>>
  /\ (Compare /\ deleted_files # <<>>) => pc \in {"target_scan", "done"}
  /\ (Backup /\ (move_queue # <<>> \/ pc = "process")) =>
       (walk = <<>> /\ pc \in {"process", "done", "aborted"})

C6_Witness ==
  \/ Compare /\ pc = "target_scan" /\ deleted_files # <<>> /\ walk # <<>>
  \/ Backup /\ pc = "process" /\ move_queue # <<>>

\* C10: every file a run has deleted or moved still has an in-place copy:
\* the indexed reference path (compare) or the record at position 0 of its
\* group (backup) holds the same content.
C10_LastCopyNeverRemoved ==
  /\ Compare =>
       \A i \in 1..Len(deleted_files) :
         LET path == deleted_files[i]
             d == DigestAtStart(path)
         IN  /\ d \in DOMAIN reference_hashes
             /\ disk[Realpath(reference_hashes[d])] = d[2]
  /\ Backup =>
       \A i \in 1..Len(move_queue) :
         \E g \in Groups :
           /\ move_queue[i].path \in {r.path : r \in Members(g)}
           /\ g.info_list[1].path # move_queue[i].path
           /\ disk[Realpath(g.info_list[1].path)] = Content(g)

\* backup root joined with the path relative to the scan root (every scanned
\* directory lies below the one-component scan root)
BackupPlace(path) == Join(BACKUP_DIR \o Tail(ResolveDir(path.dir)), path.name)

RowsFor(path) == {i \in 1..Len(log) : log[i].path = path}
HasOwnRow(path) == Cardinality(RowsFor(path)) = 1
HasKeepRow(path) == HasOwnRow(path) /\ \A i \in RowsFor(path) : log[i].status = "Keep"

InPlace(g, r) == disk[Realpath(r.path)] = Content(g)
Relocated(g, r) ==
  /\ disk[Realpath(r.path)] = NoFile
  /\ disk[Realpath(BackupPlace(r.path))] = Content(g)

MoveFailedFor(r) == MoveFailed(r.path) \in console

DuplicateGroups == {g \in Groups : Len(g.info_list) >= 2}

\* C2 as stated: after a single-tree run every duplicate group has exactly
\* one member in place with a "Keep" row; every other member is at backup
\* root + relative path, gone from its original path, and has its own row.
C2_Original ==
  (Backup /\ pc = "done") =>
    \A g \in DuplicateGroups :
      \E k \in Members(g) :
        /\ InPlace(g, k) /\ HasKeepRow(k.path)
        /\ \A r \in Members(g) \ {k} : Relocated(g, r) /\ HasOwnRow(r.path)

\* C2 amended: the member at position 0 is in place with a "Keep" row and
\* is the only one with such a row; every other member has its own row and
\* is relocated when its move succeeded, in place when its move failed.
C2_OneKeptOthersRelocated ==
  (Backup /\ pc = "done") =>
    \A g \in DuplicateGroups :
      LET k == g.info_list[1]
      IN  /\ InPlace(g, k) /\ HasKeepRow(k.path)
          /\ \A r \in Members(g) \ {k} :
               /\ HasOwnRow(r.path) /\ ~HasKeepRow(r.path)
               /\ IF MoveFailedFor(r) THEN InPlace(g, r) ELSE Relocated(g, r)

C2_Witness ==
  /\ Backup /\ pc = "done"
  /\ \E g \in DuplicateGroups :
       /\ Len(g.info_list) = 3
       /\ \E r \in Members(g) : Relocated(g, r) /\ r.path.dir # TARGET_DRIVE
       /\ \E r \in Members(g) : MoveFailedFor(r) /\ InPlace(g, r)

\* position of a path in the scan of the tree as the run found it
ScanPos(path) ==
  LET l == ScanList(disk0, TARGET_DRIVE, BACKUP_DIR)
  IN  CHOOSE i \in 1..Len(l) : l[i] = path

NoMarker(r) == \A i \in 1..Len(r.path.dir) : r.path.dir[i] # "Google Photos"
NameLen(r) == Len(r.path.name)
\* a is strictly better than b under (no marker, longer name)
Better(a, b) ==
  \/ NoMarker(a) /\ ~NoMarker(b)
  \/ NoMarker(a) = NoMarker(b) /\ NameLen(a) > NameLen(b)

\* the groups the processing loop has ordered so far
SortedGroups ==
  {files_dict[i].info_list :
     i \in {j \in 1..Len(files_dict) :
              /\ pc \in {"process", "done", "aborted"}
              /\ Len(files_dict[j].info_list) > 1
              /\ (j < gi \/ (j = gi /\ ii >= 1))}}

\* C5: in every ordered group no later record is better than an earlier one
\* under (no marker, longer name), and records equal on both keep their scan
\* order; so position 0 is the earliest-scanned of the best records.
C5_RetentionOrder ==
  Backup =>
    \A l \in SortedGroups :
      /\ \A i, j \in 1..Len(l) :
           i < j => /\ ~Better(l[j], l[i])
                    /\ ~Better(l[i], l[j]) => ScanPos(l[i].path) < ScanPos(l[j].path)
      /\ \A r \in Range(l) :
           \/ Better(l[1], r)
           \/ (~Better(r, l[1]) /\ ScanPos(l[1].path) <= ScanPos(r.path))

C5_Witness ==
  /\ Backup
  /\ \E l \in SortedGroups :
       /\ Len(l) = 3
       /\ ~NoMarker(l[3]) /\ NameLen(l[3]) > NameLen(l[1])
       /\ ~Better(l[1], l[2]) /\ ~Better(l[2], l[1])
       /\ ScanPos(l[3].path) < ScanPos(l[2].path)

C8_FailedActionLoggedAsError ==
  pc = "done" =>
    \A m \in console :
      (m.e \in {"remove_raises", "move"}) =>
        /\ Exists(m.path)
        /\ IF Compare
           THEN /\ DeletedRowsFor(m.path) = {}
                /\ \E i \in 1..Len(log) :
                     log[i].Deleted_File_Path = m.path /\ log[i].Status = "Error"
           ELSE /\ RowsFor(m.path) # {}
                /\ \A i \in RowsFor(m.path) : log[i].status = "Error"

\* C9: a failure on one file never ends the run early, and a file with a
\* failed step is neither deleted nor moved.
C9_PerFileFailureNeverAborts ==
  /\ pc # "aborted"
  /\ \A m \in console : m.path \notin Range(deleted_files)
  /\ \A path \in unhashed :
       /\ path \notin Range(deleted_files)
       /\ \A i \in 1..Len(move_queue) : move_queue[i].path # path

====
